---------------------------- MODULE Spec2Model ----------------------------
(***************************************************************************)
(* Model of src/nODEDRL/modules.py: the ReplayMemory class (a pair of      *)
(* bounded deques holding transitions and their priorities), the training  *)
(* loop run_model and the optimisation step optimize_model with its soft   *)
(* update of the target network.                                           *)
(*                                                                         *)
(* Abstractions.  Tensors are opaque: the `state` of a transition is       *)
(* modelled by the number of the push that stored it (every push stores a  *)
(* fresh tensor), `action` by its dtype and value, `reward` by 0, and      *)
(* `next_state` by "None" or "obs".  Priorities are integers standing for Python floats.  The     *)
(* sampling weights priority^alpha / sum are modelled for the default      *)
(* alpha = 0.5 by their class: positive, zero, or nan.  Python indices are *)
(* 0-based; position i of a deque is element i + 1 of the sequence.        *)
(***************************************************************************)
EXTENDS Integers, Sequences, FiniteSets, TLC

\* Bounds: largest capacity, number of pushes, batch size / argument length
\* of the ReplayMemory specification (Spec), and number of epochs of run_model.
MaxCapacity == 2
MaxPush == 3
MaxLen == 2
MaxEpochs == 2

\* run_model needs a store larger than the batch size and pushes beyond it.
LoopCapacity == MaxCapacity + 1
LoopPush == MaxPush + 2

\* Priorities a caller passes to push, and values passed to update_priorities.
PushPriorities == {1, 2}
UpdateValues == {-1, 0}

VARIABLES
    capacity,    \* maxlen of the deques (ReplayMemory.__init__)
    memory,      \* self._memory: sequence of transitions
    priorities,  \* self._priorities: sequence of numbers
    pushes,      \* history: number of push calls so far
    expected,    \* history: push number -> priority given to or last written for it
    result,      \* outcome of the last ReplayMemory call
    pc,          \* position of run_model / optimize_model
    hp,          \* HyperParameterWrapper: no_epochs, batch_size, tau, action_type,
                 \* and n_observations = len(hp.obs_high)
    epoch,       \* run_model: loop variable of the epoch loop
    env,         \* run_model: action, terminated, truncated, next_state of the last step
    batch,       \* optimize_model: idx_choice, transitions, td_error
    nets,        \* state dicts of policy_net and target_net (key -> rational)
    error,       \* the exception that ended the run, or "none"
    hist         \* history: counters of optimizer steps, soft updates, episodes

apiVars == <<capacity, memory, priorities, pushes, expected, result>>
loopVars == <<pc, hp, epoch, env, batch, nets, error, hist>>
vars == <<capacity, memory, priorities, pushes, expected, result,
          pc, hp, epoch, env, batch, nets, error, hist>>

(***************************************************************************)
(* Transition = namedtuple("Transition", state, action, next_state, reward)*)
(***************************************************************************)
Transition(state, action, next_state, reward) ==
    [state |-> state, action |-> action, next_state |-> next_state, reward |-> reward]

TransitionFields == <<"state", "action", "next_state", "reward">>

(***************************************************************************)
(* collections.deque(maxlen = n).append(x): when the deque is full the     *)
(* leftmost element is discarded.                                          *)
(***************************************************************************)
DequeAppend(d, x, maxlen) ==
    IF Len(d) = maxlen THEN Append(Tail(d), x) ELSE Append(d, x)

\* ReplayMemory.__len__
MemLen == Len(memory)

\* deque indexing: i in -len..len-1 is valid, negative i counts from the right.
ValidIndex(d, i) == -Len(d) <= i /\ i < Len(d)
Pos(d, i) == IF i < 0 THEN Len(d) + i + 1 ELSE i + 1

(***************************************************************************)
(* ReplayMemory.push: append the transition and the priority.              *)
(***************************************************************************)
\* Mutant: a full memory gives up its newest record instead of its oldest.
PushMemoryEvictNewest(mem, t, cap) ==
    IF Len(mem) = cap THEN Append(SubSeq(mem, 1, Len(mem) - 1), t) ELSE Append(mem, t)

PushMemory(mem, t, cap) == DequeAppend(mem, t, cap)

\* Mutant: the priority deque is built without maxlen and never evicts.
PushPriorityNoEvict(prios, p, cap) == Append(prios, p)

PushPriority(prios, p, cap) == DequeAppend(prios, p, cap)

\* `k` is the batch_size a sample call was given; `mismatch` and `changed`
\* tell of an update_priorities call whether its two arguments differed in
\* length and whether it altered a stored priority.
NoResult == [op |-> "none", err |-> "none", idx_choice |-> <<>>, elements |-> <<>>,
             k |-> 0, mismatch |-> FALSE, changed |-> FALSE]

Push(action, next_state, priority) ==
    /\ LET t == Transition(pushes + 1, action, next_state, 0) IN
       /\ memory' = PushMemory(memory, t, capacity)
       /\ priorities' = PushPriority(priorities, priority, capacity)
       /\ pushes' = pushes + 1
       /\ expected' = [n \in {memory'[i].state : i \in 1..Len(memory')} |->
                          IF n = pushes + 1 THEN priority ELSE expected[n]]
    /\ result' = [NoResult EXCEPT !.op = "push"]
    /\ UNCHANGED capacity

(***************************************************************************)
(* ReplayMemory.probabilities: np.power(priorities, alpha) / sum.  For     *)
(* alpha = 0.5 a negative priority gives nan, which makes the sum and so   *)
(* every quotient nan; an all-zero vector gives 0/0 = nan everywhere.      *)
(***************************************************************************)
Power(p) == IF p < 0 THEN "nan" ELSE IF p = 0 THEN "zero" ELSE "pos"

Probabilities(prios) ==
    LET pw == [i \in 1..Len(prios) |-> Power(prios[i])]
        sumNan == \/ \E i \in 1..Len(prios) : pw[i] = "nan"
                  \/ \A i \in 1..Len(prios) : pw[i] = "zero"
    IN [i \in 1..Len(prios) |-> IF sumNan THEN "nan" ELSE pw[i]]

(***************************************************************************)
(* list(itemgetter applied to the drawn indices): with two or more        *)
(* indices the items; with one index list() runs over the single           *)
(* Transition and yields its four fields.                                  *)
(***************************************************************************)
Elements(mem, idx) ==
    IF Len(idx) = 1
    THEN [j \in 1..4 |-> [field |-> TransitionFields[j], of |-> mem[idx[1] + 1].state]]
    ELSE [j \in 1..Len(idx) |-> mem[idx[j] + 1]]

(***************************************************************************)
(* ReplayMemory.sample(batch_size): the set of possible outcomes.          *)
(* random.choices raises IndexError on an empty weight list, ValueError    *)
(* when the total is nan, and otherwise draws k indices of positive        *)
(* weight; itemgetter() without arguments raises TypeError.                *)
(***************************************************************************)
SampleOutcomes(mem, prios, k) ==
    LET w == Probabilities(prios)
        support == {i \in 0..(Len(mem) - 1) : w[i + 1] = "pos"}
    IN IF Len(mem) = 0
       THEN {[NoResult EXCEPT !.op = "sample", !.k = k, !.err = "IndexError"]}
       ELSE IF \E i \in 1..Len(w) : w[i] = "nan"
       THEN {[NoResult EXCEPT !.op = "sample", !.k = k, !.err = "ValueError"]}
       ELSE IF k <= 0
       THEN {[NoResult EXCEPT !.op = "sample", !.k = k, !.err = "TypeError"]}
       ELSE {[NoResult EXCEPT !.op = "sample", !.k = k, !.idx_choice = idx,
                              !.elements = Elements(mem, idx)] : idx \in [1..k -> support]}

Sample(batch_size) ==
    /\ result' \in SampleOutcomes(memory, priorities, batch_size)
    /\ UNCHANGED <<capacity, memory, priorities, pushes, expected>>

(***************************************************************************)
(* ReplayMemory.update_priorities: for choice_idx, memory_idx in           *)
(* enumerate(indices): _priorities[memory_idx] = float(priorities[         *)
(* choice_idx]).  An IndexError (too few priorities, or an index outside   *)
(* the deque) leaves the pairs before it applied.  `done` counts the pairs *)
(* applied.                                                                *)
(***************************************************************************)
RECURSIVE UpdateLoop(_, _, _, _)
UpdateLoop(prios, indices, values, choice_idx) ==
    IF choice_idx >= Len(indices)
    THEN [prios |-> prios, err |-> "none", done |-> choice_idx]
    ELSE IF choice_idx >= Len(values) \/ ~ValidIndex(prios, indices[choice_idx + 1])
    THEN [prios |-> prios, err |-> "IndexError", done |-> choice_idx]
    ELSE UpdateLoop([prios EXCEPT ![Pos(prios, indices[choice_idx + 1])] = values[choice_idx + 1]],
                    indices, values, choice_idx + 1)

\* Mutant: the pairs are applied last to first, so a repeated index keeps
\* the value of its first occurrence.
UpdatePrioritiesReversed(prios, indices, values) ==
    LET n == Len(indices)
    IN UpdateLoop(prios, [j \in 1..n |-> indices[n + 1 - j]],
                  [j \in 1..Len(values) |-> values[Len(values) + 1 - j]], 0)

UpdatePrioritiesOf(prios, indices, values) == UpdateLoop(prios, indices, values, 0)

\* History: the value last written for the push stored at each index.
RECURSIVE ExpectedAfter(_, _, _, _, _)
ExpectedAfter(exp, mem, indices, values, n) ==
    IF n = 0 THEN exp
    ELSE LET e == ExpectedAfter(exp, mem, indices, values, n - 1)
         IN [e EXCEPT ![mem[Pos(mem, indices[n])].state] = values[n]]

UpdatePriorities(indices, values) ==
    /\ LET r == UpdatePrioritiesOf(priorities, indices, values) IN
       /\ priorities' = r.prios
       /\ expected' = ExpectedAfter(expected, memory, indices, values, r.done)
       /\ result' = [NoResult EXCEPT !.op = "update_priorities", !.err = r.err,
                                      !.mismatch = (Len(indices) # Len(values)),
                                      !.changed = (r.prios # priorities)]
    /\ UNCHANGED <<capacity, memory, pushes>>

SeqsUpTo(S, n) == UNION {[1..k -> S] : k \in 0..n}

(***************************************************************************)
(* Parameter values are exact rationals <<numerator, denominator>>; with   *)
(* the dyadic tau drawn below the float arithmetic of the code is exact.   *)
(***************************************************************************)
Abs(x) == IF x < 0 THEN -x ELSE x

RECURSIVE Gcd(_, _)
Gcd(a, b) == IF b = 0 THEN a ELSE Gcd(b, a % b)

Rat(n, d) == LET g == Gcd(Abs(n), d) IN <<n \div g, d \div g>>
RatMul(x, y) == Rat(x[1] * y[1], x[2] * y[2])
RatAdd(x, y) == Rat(x[1] * y[2] + y[1] * x[2], x[2] * y[2])
RatSub(x, y) == Rat(x[1] * y[2] - y[1] * x[2], x[2] * y[2])
One == Rat(1, 1)

ParamKeys == {"weight", "bias"}
ParamValues == {Rat(0, 1), Rat(1, 1)}
Taus == {Rat(1, 2), Rat(1, 1)}

(***************************************************************************)
(* optimize_model, soft update: for key in policy_net_state_dict:          *)
(* target_net_state_dict[key] = policy[key] * tau + target[key] * (1-tau); *)
(* then target_net.load_state_dict(target_net_state_dict).  Reading a key  *)
(* the target lacks raises KeyError before load_state_dict, so the target  *)
(* network keeps its parameters; keys only the target has are not visited. *)
(***************************************************************************)
SoftUpdateOf(policy, target, tau) ==
    IF \E key \in DOMAIN policy : key \notin DOMAIN target
    THEN [target |-> target, err |-> "KeyError"]
    ELSE [target |-> [key \in DOMAIN target |->
                        IF key \in DOMAIN policy
                        THEN RatAdd(RatMul(policy[key], tau),
                                    RatMul(target[key], RatSub(One, tau)))
                        ELSE target[key]],
          err |-> "none"]

(***************************************************************************)
(* run_model.                                                              *)
(***************************************************************************)
NoBatch == [idx_choice |-> <<>>, transitions |-> <<>>, td_error |-> <<>>]
\* select_action: the action tensor has dtype hp.torch_action_type, float for
\* a Box action space (lines 68-74), int64 for a Discrete one (lines 76-81),
\* where its value is an element of range(env.action_space.n).
ActionTypes == {"box", "discrete"}
DiscreteActions == {0, 1}
ObsCounts == {1, 2}
Actions(action_type) ==
    IF action_type = "box"
    THEN {[dtype |-> "float", value |-> 0]}
    ELSE {[dtype |-> "int64", value |-> a] : a \in DiscreteActions}

NoAction == [dtype |-> "int64", value |-> 0]

NoEnv == [action |-> NoAction, terminated |-> FALSE, truncated |-> FALSE,
          next_state |-> "obs"]
(***************************************************************************)
(* History: soft_updates counts the calls of target_net.load_state_dict(); *)
(* optimized tells whether optimize_model was called in the current loop   *)
(* iteration; none_pushes counts the pushes with next_state None, episodes *)
(* the episodes ended by break, episode_pushes the pushes of the current   *)
(* episode; sampled_from is the memory as sample saw it, target_before the *)
(* target before a soft update.                                            *)
(***************************************************************************)
NoHist == [soft_updates |-> 0, optimized |-> FALSE,
           none_pushes |-> 0, episodes |-> 0, episode_pushes |-> 0,
           sampled_from |-> <<>>, target_before |-> <<>>]

\* TD-errors are absolute values.
TdValues == {0, 2}

\* lines 264-268: the epoch loop and env.reset()
Reset ==
    /\ pc = "reset"
    /\ pc' = IF epoch <= hp.no_epochs THEN "step" ELSE "finished"
    /\ hist' = [hist EXCEPT !.episode_pushes = 0]
    /\ UNCHANGED <<apiVars, hp, epoch, env, batch, nets, error>>

\* Mutant: a truncated episode keeps its observation as next_state.
NextStateIgnoringTruncation(terminated, truncated) ==
    IF terminated THEN "None" ELSE "obs"

\* lines 277-285
NextState(terminated, truncated) ==
    IF truncated THEN "None" ELSE IF terminated THEN "None" ELSE "obs"

\* lines 270-288: select_action and env.step
EnvStep ==
    /\ pc = "step"
    /\ pushes < LoopPush
    /\ \E action \in Actions(hp.action_type), terminated \in BOOLEAN, truncated \in BOOLEAN :
          env' = [action |-> action, terminated |-> terminated, truncated |-> truncated,
                  next_state |-> NextState(terminated, truncated)]
    /\ pc' = "push"
    /\ hist' = [hist EXCEPT !.optimized = FALSE]
    /\ UNCHANGED <<apiVars, hp, epoch, batch, nets, error>>

\* lines 290-292: replay_memory.push(state, action, next_state, reward)
StorePush ==
    /\ pc = "push"
    /\ Push(env.action, env.next_state, 1)
    /\ pc' = "guard"
    /\ hist' = [hist EXCEPT !.episode_pushes = @ + 1,
                            !.none_pushes = IF memory'[Len(memory')].next_state = "None"
                                            THEN @ + 1 ELSE @]
    /\ UNCHANGED <<hp, epoch, env, batch, nets, error>>

\* Mutant: the guard admits a store of exactly batch_size records.
ShouldOptimizeAtBatchSize(len, batch_size) == len >= batch_size

\* line 294: if len(replay_memory) > hp.batch_size
ShouldOptimize(len, batch_size) == len > batch_size

Guard ==
    /\ pc = "guard"
    /\ pc' = IF ShouldOptimize(MemLen, hp.batch_size) THEN "sample" ELSE "done_check"
    /\ UNCHANGED <<apiVars, hp, epoch, env, batch, nets, error, hist>>

\* line 331: idx_choice, transitions = replay_memory.sample(hp.batch_size)
OptSample ==
    /\ pc = "sample"
    /\ Sample(hp.batch_size)
    /\ IF result'.err = "none"
       THEN /\ batch' = [NoBatch EXCEPT !.idx_choice = result'.idx_choice,
                                        !.transitions = result'.elements]
            /\ pc' = "batch"
            /\ error' = error
       ELSE /\ batch' = NoBatch
            /\ pc' = "crashed"
            /\ error' = result'.err
    /\ hist' = [hist EXCEPT !.optimized = TRUE, !.sampled_from = memory]
    /\ UNCHANGED <<hp, epoch, env, nets>>

(***************************************************************************)
(* lines 332-347: the batch and its TD-errors.  Unzipping into Transition   *)
(* the flattened single-sample list raises TypeError (line 332).  Line 334 *)
(* gathers along the n_observations columns of the stacked states with the *)
(* actions as index: gather raises RuntimeError for an index that is not   *)
(* int64 or not below n_observations.  torch.cat of an empty list (every   *)
(* sampled next_state is None, line 339) raises RuntimeError.  Otherwise   *)
(* the tensor arithmetic yields one absolute value per sample.             *)
(***************************************************************************)
GatherFails(action, n_observations) ==
    action.dtype # "int64" \/ action.value < 0 \/ action.value >= n_observations

BatchError(transitions, n_observations) ==
    IF \E j \in 1..Len(transitions) : "field" \in DOMAIN transitions[j]
    THEN "TypeError"
    ELSE IF \E j \in 1..Len(transitions) :
                GatherFails(transitions[j].action, n_observations)
    THEN "RuntimeError"
    ELSE IF \A j \in 1..Len(transitions) : transitions[j].next_state = "None"
    THEN "RuntimeError"
    ELSE "none"

OptBatch ==
    /\ pc = "batch"
    /\ IF BatchError(batch.transitions, hp.n_observations) = "none"
       THEN /\ \E td \in [1..hp.batch_size -> TdValues] :
                  batch' = [batch EXCEPT !.td_error = td]
            /\ pc' = "update"
            /\ error' = error
       ELSE /\ batch' = batch
            /\ pc' = "crashed"
            /\ error' = BatchError(batch.transitions, hp.n_observations)
    /\ UNCHANGED <<apiVars, hp, epoch, env, nets, hist>>

\* line 348: replay_memory.update_priorities(idx_choice, td_error)
OptUpdate ==
    /\ pc = "update"
    /\ UpdatePriorities(batch.idx_choice, batch.td_error)
    /\ pc' = IF result'.err = "none" THEN "optim" ELSE "crashed"
    /\ error' = result'.err
    /\ UNCHANGED <<hp, epoch, env, batch, nets, hist>>

(***************************************************************************)
(* lines 350-354: the loss and loss.backward().  Line 334 gathers          *)
(* state_action_values from the batch states, which run_model built with   *)
(* torch.tensor (lines 267, 283), and never calls policy_net: the loss has *)
(* no grad_fn and backward() raises RuntimeError.  optimizer.step() and    *)
(* the soft update are not reached; the priorities written at line 348     *)
(* stay written.                                                           *)
(***************************************************************************)
OptStep ==
    /\ pc = "optim"
    /\ pc' = "crashed"
    /\ error' = "RuntimeError"
    /\ UNCHANGED <<apiVars, hp, epoch, env, batch, nets, hist>>

\* lines 360-367: the soft update of target_net, and the return (reached
\* only when optimize_model is given a loss that backward() accepts).
SoftUpdate ==
    /\ pc = "sync"
    /\ LET r == SoftUpdateOf(nets.policy, nets.target, hp.tau) IN
       /\ nets' = [nets EXCEPT !.target = r.target]
       /\ error' = r.err
       /\ pc' = IF r.err = "none" THEN "done_check" ELSE "crashed"
       /\ hist' = [hist EXCEPT !.soft_updates = IF r.err = "none" THEN @ + 1 ELSE @,
                               !.target_before = nets.target, !.sampled_from = <<>>]
    /\ batch' = NoBatch
    /\ UNCHANGED <<apiVars, hp, epoch, env>>

\* lines 275, 304-319: if done: ... break
DoneCheck ==
    /\ pc = "done_check"
    /\ IF env.terminated \/ env.truncated
       THEN /\ epoch' = epoch + 1
            /\ pc' = "reset"
            /\ hist' = [hist EXCEPT !.episodes = @ + 1]
       ELSE /\ epoch' = epoch
            /\ pc' = "step"
            /\ hist' = hist
    /\ UNCHANGED <<apiVars, hp, env, batch, nets, error>>

(***************************************************************************)
(* Spec: a ReplayMemory under any sequence of calls.                       *)
(***************************************************************************)
InitMemory ==
    /\ memory = <<>>
    /\ priorities = <<>>
    /\ pushes = 0
    /\ expected = <<>>
    /\ result = NoResult

\* run_model builds both networks from one model class: equal key sets.
SameNets == {[policy |-> p, target |-> t] :
                p \in [{"weight"} -> {Rat(1, 1)}], t \in [{"weight"} -> {Rat(0, 1)}]}

Init ==
    /\ capacity \in 1..MaxCapacity
    /\ InitMemory
    /\ pc = "idle"
    /\ hp = [no_epochs |-> 0, batch_size |-> 0, tau |-> Rat(1, 2),
             action_type |-> "discrete", n_observations |-> 1]
    /\ epoch = 1
    /\ env = NoEnv
    /\ batch = NoBatch
    /\ nets \in SameNets
    /\ error = "none"
    /\ hist = NoHist

Next ==
    \/ /\ pushes < MaxPush
       /\ \E p \in PushPriorities : Push(NoAction, "obs", p)
       /\ UNCHANGED loopVars
    \/ /\ \E k \in 0..MaxLen : Sample(k)
       /\ UNCHANGED loopVars
    \/ /\ \E indices \in SeqsUpTo(-1..(MaxCapacity - 1), MaxLen) :
            \E values \in SeqsUpTo(UpdateValues, MaxLen) :
               /\ Len(values) \in {Len(indices) - 1, Len(indices), Len(indices) + 1}
               /\ UpdatePriorities(indices, values)
       /\ UNCHANGED loopVars

Spec == Init /\ [][Next]_vars

(***************************************************************************)
(* SpecLoop: run_model.  ReplayMemory(1_000) and the hyperparameters are   *)
(* scaled down to the bounds; with batch_size = capacity optimize_model is *)
(* never called and the loop runs on, otherwise its first call ends the    *)
(* run.                                                                    *)
(***************************************************************************)
InitLoop ==
    /\ capacity = LoopCapacity
    /\ InitMemory
    /\ pc = "reset"
    /\ hp \in [no_epochs : 1..MaxEpochs, batch_size : 0..LoopCapacity, tau : {Rat(1, 2)},
               action_type : ActionTypes, n_observations : ObsCounts]
    /\ epoch = 1
    /\ env = NoEnv
    /\ batch = NoBatch
    /\ nets \in SameNets
    /\ error = "none"
    /\ hist = NoHist

NextLoop ==
    \/ Reset
    \/ EnvStep
    \/ StorePush
    \/ Guard
    \/ OptSample
    \/ OptBatch
    \/ OptUpdate
    \/ OptStep
    \/ DoneCheck

SpecLoop == InitLoop /\ [][NextLoop]_vars

(***************************************************************************)
(* SpecSoft: the soft update of optimize_model on any pair of state dicts. *)
(***************************************************************************)
StateDicts == UNION {[keys -> ParamValues] : keys \in (SUBSET ParamKeys) \ {{}}}

InitSoft ==
    /\ capacity = 1
    /\ InitMemory
    /\ pc = "sync"
    /\ hp \in [no_epochs : {1}, batch_size : {0}, tau : Taus,
               action_type : {"discrete"}, n_observations : {1}]
    /\ epoch = 1
    /\ env = NoEnv
    /\ batch = NoBatch
    /\ nets \in [policy : StateDicts, target : StateDicts]
    /\ error = "none"
    /\ hist = NoHist

NextSoft == SoftUpdate

SpecSoft == InitSoft /\ [][NextSoft]_vars

(***************************************************************************)
(* Properties.                                                             *)
(***************************************************************************)
Min(a, b) == IF a < b THEN a ELSE b

\* C1: after N pushes into a memory of capacity C >= 1 the memory holds
\* min(N, C) records, and the record at index i (0-based) is the
\* (N - len + i + 1)-th push: the most recent pushes in push order.
C1_MostRecentPushesInOrder ==
    capacity >= 1 =>
        /\ Len(memory) = Min(pushes, capacity)
        /\ \A i \in 0..(Len(memory) - 1) :
              memory[i + 1].state = pushes - Len(memory) + i + 1

C1_Witness ==
    /\ capacity >= 2
    /\ pushes > capacity
    /\ Len(memory) = capacity
    /\ result.op = "push"

\* C2: records and priorities have equal length, and the priority at every
\* index is the one given to, or last written for, the push whose
\* transition is at that index.
C2_PrioritiesAligned ==
    /\ Len(memory) = Len(priorities)
    /\ \A i \in 1..Len(memory) :
          /\ memory[i].state \in DOMAIN expected
          /\ priorities[i] = expected[memory[i].state]

C2_Witness ==
    /\ capacity >= 2
    /\ pushes > capacity
    /\ result.op = "push"
    /\ \E i \in 1..Len(priorities) : priorities[i] \in UpdateValues
    /\ \E i \in 1..Len(priorities) : priorities[i] \in PushPriorities

\* C3 (as claimed): update_priorities clamps to a positive minimum, so after
\* any pushes and updates every stored priority is strictly positive.
C3_PrioritiesPositive ==
    \A i \in 1..Len(priorities) : priorities[i] > 0

\* C4 (as claimed): update_priorities with arguments of different lengths
\* fails and leaves every stored priority unchanged.
C4_MismatchFailsUnchanged ==
    (result.op = "update_priorities" /\ result.mismatch) =>
        (result.err # "none" /\ ~result.changed)

\* C5: optimize_model, and so sample, runs only on a store holding more than
\* batch_size records (hence a non-empty one); once the guard of a loop
\* iteration is passed, optimize_model is being or has been called exactly
\* if the store holds more than batch_size records; the store never shrinks.
InOptimize == pc \in {"sample", "batch", "update", "optim", "sync"}

C5_State ==
    /\ InOptimize => (Len(memory) > hp.batch_size /\ Len(memory) > 0)
    /\ (pc \in {"batch", "crashed"} /\ result.op = "sample") =>
          hist.sampled_from # <<>> /\ Len(hist.sampled_from) > hp.batch_size
    /\ pc \in {"sample", "batch", "update", "optim", "done_check", "crashed"} =>
          ((hist.optimized \/ pc = "sample") <=> Len(memory) > hp.batch_size)

C5_OptimizeOnlyAboveBatchSize ==
    [](C5_State) /\ [][Len(memory') >= Len(memory)]_vars

C5_Witness ==
    /\ pc = "optim"
    /\ hist.optimized
    /\ hp.batch_size >= 2
    /\ pushes = hp.batch_size + 1

\* C7: the pushed transition has next_state None exactly if the step was
\* terminated or truncated; the episode ends in that iteration and in no
\* other, so each episode has one such push, its last.
AfterPush == pc \in {"guard", "sample", "batch", "update", "optim", "sync",
                     "done_check", "crashed"}
Done == env.terminated \/ env.truncated
LastPush == memory[Len(memory)]

C7_NoneExactlyOnLastPush ==
    /\ AfterPush => (LastPush.next_state = "None" <=> Done)
    /\ hist.none_pushes = hist.episodes + (IF AfterPush /\ Done THEN 1 ELSE 0)
    /\ (pc \in {"step", "push"} /\ hist.episode_pushes > 0) =>
          LastPush.next_state = "obs"
    /\ (pc \in {"reset", "finished"} /\ hist.episodes > 0) =>
          /\ LastPush.next_state = "None"
          /\ hist.episodes = epoch - 1

C7_Witness ==
    /\ pc = "reset"
    /\ hist.episodes = 2
    /\ hist.none_pushes = 2
    /\ hist.episode_pushes >= 2
    /\ pushes > capacity
    /\ env.truncated /\ ~env.terminated

\* C8 (as claimed): the soft update fails whenever the key sets of policy
\* and target differ, leaving the target unmodified, and otherwise sets
\* target[k] = tau * policy[k] + (1 - tau) * target[k] for every key.
C8_KeyMismatchFails ==
    pc \in {"done_check", "crashed"} =>
        IF DOMAIN nets.policy # DOMAIN hist.target_before
        THEN error = "KeyError" /\ nets.target = hist.target_before
        ELSE /\ error = "none"
             /\ DOMAIN nets.target = DOMAIN nets.policy
             /\ \A k \in DOMAIN nets.policy :
                   nets.target[k] =
                       RatAdd(RatMul(hp.tau, nets.policy[k]),
                              RatMul(RatSub(One, hp.tau), hist.target_before[k]))

\* C9 (as claimed): sample fails on an empty store for every batch_size; on
\* a non-empty store with all-positive priorities it returns batch_size
\* indices in 0..len-1 and the transitions stored at them.
C9_SampleContract ==
    result.op = "sample" =>
        IF Len(memory) = 0
        THEN result.err # "none"
        ELSE (\A i \in 1..Len(priorities) : priorities[i] > 0) =>
                /\ result.err = "none"
                /\ Len(result.idx_choice) = result.k
                /\ \A j \in 1..Len(result.idx_choice) :
                      result.idx_choice[j] \in 0..(Len(memory) - 1)
                /\ Len(result.elements) = result.k
                /\ \A j \in 1..Len(result.elements) :
                      result.elements[j] = memory[result.idx_choice[j] + 1]

\* C10: between sample and update_priorities the memory does not change;
\* every index handed to update_priorities is in 0..len-1 and denotes the
\* transition sample returned for it; after the update each sampled index
\* holds the TD-error of its last occurrence in the batch.
LastOccurrence(idx, i) ==
    CHOOSE j \in 1..Len(idx) : idx[j] = i /\ \A m \in (j + 1)..Len(idx) : idx[m] # i

C10_UpdateHitsSampled ==
    /\ pc \in {"batch", "update", "optim"} => memory = hist.sampled_from
    /\ pc \in {"update", "optim"} =>
          /\ Len(batch.idx_choice) = Len(batch.td_error)
          /\ \A j \in 1..Len(batch.idx_choice) :
                /\ batch.idx_choice[j] \in 0..(Len(memory) - 1)
                /\ batch.transitions[j] = memory[batch.idx_choice[j] + 1]
    /\ pc = "optim" =>
          \A j \in 1..Len(batch.idx_choice) :
              priorities[batch.idx_choice[j] + 1] =
                  batch.td_error[LastOccurrence(batch.idx_choice, batch.idx_choice[j])]

C10_Witness ==
    /\ pc = "optim"
    /\ Len(memory) = capacity
    /\ \E j \in 1..Len(batch.idx_choice) : \E m \in (j + 1)..Len(batch.idx_choice) :
          /\ batch.idx_choice[j] = batch.idx_choice[m]
          /\ batch.td_error[j] # batch.td_error[m]

=============================================================================
